---------------------------- MODULE Spec2Model ----------------------------
(***************************************************************************)
(* FinTrack: statement parsing, categorization and the ledger store.       *)
(*                                                                         *)
(* Text is modelled as a sequence of whitespace-separated tokens: a line   *)
(* is a sequence of tokens, a page a sequence of lines, a document a       *)
(* sequence of pages.  Python's `x in s` is containment of a token run,    *)
(* and each regular expression is matched token by token, which is exact   *)
(* for the row patterns because every group of them is delimited by \s+.   *)
(* An optional value (None in the source) is the empty sequence, a present *)
(* value v is <<v>>.  Amounts are counted in cents.                        *)
(***************************************************************************)
EXTENDS Integers, Sequences, FiniteSets, TLC

VARIABLES
    accounts,                \* table accounts, in rowid order
    categories,              \* table categories, in rowid order
    transactions,            \* table transactions, in rowid order
    snapshot,                \* Categorizer.categories, the in-memory copy
    current_year,            \* datetime.now().year
    ingested,                \* history: the (document, year) pairs parse_pdf has run on
    submitted,               \* history: the (account, date, description, amount) tuples
                             \* handed to add_transaction
    statement_type,          \* CIBCParser.statement_type
    in_transaction_section,  \* the parser's per-page flag
    parsed,                  \* the parser's list `transactions`
    pages,                   \* the page texts of the open document
    account_info,            \* what extract_account_info returned
    workers,                 \* the ingestion processes sharing the database file
    last                     \* the call or loop step just made, with its result

vars == <<accounts, categories, transactions, snapshot, current_year, ingested, submitted,
          statement_type, in_transaction_section, parsed, pages, account_info, workers,
          last>>

storeVars == <<accounts, categories, transactions, snapshot, ingested, submitted>>

parserVars == <<statement_type, in_transaction_section, parsed, pages, account_info>>

-----------------------------------------------------------------------------
(* Optional values and small helpers *)

None == <<>>

Some(v) == <<v>>

Last(s) == s[Len(s)]

Front(s) == SubSeq(s, 1, Len(s) - 1)

\* The calendar years the clock can show; the second one is a leap year.
Years == {2027, 2028}

-----------------------------------------------------------------------------
(* Text *)

\* Pairs <<fragment, token>>: the fragment is a proper part of the token's
\* characters, so a substring test for the fragment hits the token.
Infix == {<<"of", "Professional">>, <<"mart", "walmart">>}

Inside(frag, tok) == tok = frag \/ <<frag, tok>> \in Infix

\* Python's `phrase in text` on one line of text.
Contains(text, phrase) ==
    \E i \in 1..(Len(text) - Len(phrase) + 1) :
        \A j \in 1..Len(phrase) : Inside(phrase[j], text[i + j - 1])

EndsWith(text, suffix) ==
    /\ Len(suffix) <= Len(text)
    /\ SubSeq(text, Len(text) - Len(suffix) + 1, Len(text)) = suffix

\* str.lower() on the tokens the model uses.
LowerPairs ==
    {<<"SHOP", "shop">>, <<"Shop", "shop">>, <<"MART", "mart">>, <<"Mart", "mart">>,
     <<"WALMART", "walmart">>, <<"VISA", "visa">>, <<"DEBIT", "debit">>,
     <<"RETAIL", "retail">>, <<"PURCHASE", "purchase">>, <<"PAYROLL", "payroll">>,
     <<"DEPOSIT", "deposit">>}

LowerTable ==
    [t \in {p[1] : p \in LowerPairs} |-> (CHOOSE p \in LowerPairs : p[1] = t)[2]]

LowerTok(t) == IF t \in DOMAIN LowerTable THEN LowerTable[t] ELSE t

Lower(text) == [i \in 1..Len(text) |-> LowerTok(text[i])]

\* Tokens matching [A-Z][a-z]{2}
Cap3 == {"Sep", "Feb", "Xyz", "Gas"}

\* Tokens matching \d{1,2}, with their value
DayValue == [t \in {"2", "02", "08", "29", "30"} |->
    CASE t \in {"2", "02"} -> 2 [] t = "08" -> 8 [] t = "29" -> 29 [] OTHER -> 30]

Digits12 == DOMAIN DayValue

\* Tokens matching \d{2}
Digits2 == {"02", "08", "29", "30"}

\* Tokens matching [\d,]+\.\d{2}, with float(s.replace(',', '')) in cents
NumValue == [t \in {"37.67", "898.18", "1,234.50", "100.00"} |->
    CASE t = "37.67" -> 3767 [] t = "898.18" -> 89818
      [] t = "1,234.50" -> 123450 [] OTHER -> 10000]

NumTok == DOMAIN NumValue

\* %b of strptime and %m of strftime
MonthNumber == [t \in {"Sep", "Feb"} |-> IF t = "Sep" THEN 9 ELSE 2]

IsLeap(y) == (y % 4 = 0 /\ y % 100 # 0) \/ y % 400 = 0

DaysIn(m, y) == IF m = 2 THEN (IF IsLeap(y) THEN 29 ELSE 28) ELSE 30

Pad2(n) == IF n < 10 THEN "0" \o ToString(n) ELSE ToString(n)

-----------------------------------------------------------------------------
(* CIBCParser: dates and rows *)

\* _parse_date were it to format any day of a known month
parse_date_any_day(date_str, year) ==
    IF date_str[1] \in DOMAIN MonthNumber
    THEN <<ToString(year), "-", Pad2(MonthNumber[date_str[1]]), "-",
           Pad2(DayValue[date_str[2]])>>
    ELSE date_str

\* _parse_date: 'Sep 06' to '2025-09-06'; the text itself when strptime fails
parse_date(date_str, year) ==
    IF /\ date_str[1] \in DOMAIN MonthNumber
       /\ DayValue[date_str[2]] \in 1..DaysIn(MonthNumber[date_str[1]], year)
    THEN <<ToString(year), "-", Pad2(MonthNumber[date_str[1]]), "-",
           Pad2(DayValue[date_str[2]])>>
    ELSE date_str

\* The bank row pattern:
\* ([A-Z][a-z]{2}\s+\d{1,2})\s+(.+?)\s+([\d,]+\.\d{2})\s+([\d,]+\.\d{2})$
BankRowMatch(l) ==
    /\ Len(l) >= 5
    /\ l[1] \in Cap3
    /\ l[2] \in Digits12
    /\ l[Len(l) - 1] \in NumTok
    /\ l[Len(l)] \in NumTok

BankHeader(l) ==
    \/ Contains(l, <<"Date", "Description", "Withdrawals">>)
    \/ Contains(l, <<"Transaction", "details">>)

BankRecordPositive(l, year) ==
    [date |-> parse_date(SubSeq(l, 1, 2), year),
     description |-> SubSeq(l, 3, Len(l) - 2),
     amount |-> NumValue[l[Len(l) - 1]],
     balance |-> Some(NumValue[l[Len(l)]])]

\* The record a matched bank row gives (groups 1..4 of the match)
BankRecord(l, year) ==
    [date |-> parse_date(SubSeq(l, 1, 2), year),
     description |-> SubSeq(l, 3, Len(l) - 2),
     amount |-> 0 - NumValue[l[Len(l) - 1]],
     balance |-> Some(NumValue[l[Len(l)]])]

\* One turn of the line loop of _parse_bank_account_transactions;
\* st is [inside, txs]: in_transaction_section and the list built so far.
BankLine(st, l, year) ==
    IF BankHeader(l) THEN [inside |-> TRUE, txs |-> st.txs]
    ELSE IF ~st.inside THEN st
    ELSE IF Contains(l, <<"Opening", "balance">>) THEN st
    ELSE IF BankRowMatch(l)
         THEN [inside |-> st.inside, txs |-> Append(st.txs, BankRecord(l, year))]
         ELSE st

\* The labels of the re.sub of _parse_transaction_page
Labels == {<<"Health", "and", "Education">>, <<"Restaurants">>,
           <<"Retail", "and", "Grocery">>,
           <<"Professional", "and", "Financial", "Services">>,
           <<"Gas", "and", "Groceries">>, <<"Gas", "Stations">>}

StripLabelAnywhere(d) ==
    IF \E L \in Labels : Contains(d, L)
    THEN LET L == CHOOSE L \in Labels : Contains(d, L)
             i == CHOOSE i \in 1..Len(d) : SubSeq(d, i, i + Len(L) - 1) = L
         IN  SubSeq(d, 1, i - 1) \o SubSeq(d, i + Len(L), Len(d))
    ELSE d

\* re.sub(r'\s+(label|...)$', '', description_raw).strip(): the label goes
\* only with the whitespace before it, so only when text precedes it.
StripLabel(d) ==
    IF \E L \in Labels : EndsWith(d, L) /\ Len(d) > Len(L)
    THEN LET L == CHOOSE L \in Labels : EndsWith(d, L) /\ Len(d) > Len(L)
         IN  SubSeq(d, 1, Len(d) - Len(L))
    ELSE d

\* The card row pattern:
\* ([A-Z][a-z]{2}\s+\d{2})\s+([A-Z][a-z]{2}\s+\d{2})\s+(.+?)\s+([\d,]+\.\d{2})$
CardRowMatch(l) ==
    /\ Len(l) >= 6
    /\ l[1] \in Cap3
    /\ l[2] \in Digits2
    /\ l[3] \in Cap3
    /\ l[4] \in Digits2
    /\ l[Len(l)] \in NumTok

CardHeader(l) ==
    \/ Contains(l, <<"Trans", "Post">>)
    \/ Contains(l, <<"date", "date", "Description">>)
    \/ Contains(l, <<"Spend", "Categories">>)

CardFooter(l) ==
    \/ (Contains(l, <<"Page">>) /\ Contains(l, <<"of">>))
    \/ Contains(l, <<"Information", "about", "your">>)

CardSkip(l) ==
    \/ Contains(l, <<"PAYMENT", "THANK", "YOU">>)
    \/ Contains(l, <<"Total", "payments">>)
    \/ l = <<"A-tilde">>     \* line.strip() == the stray character

CardRecordPostDate(l, year) ==
    [date |-> parse_date(SubSeq(l, 3, 4), year),
     description |-> StripLabel(SubSeq(l, 5, Len(l) - 1)),
     amount |-> NumValue[l[Len(l)]],
     balance |-> None]

\* The record a matched card row gives
CardRecord(l, year) ==
    [date |-> parse_date(SubSeq(l, 1, 2), year),
     description |-> StripLabel(SubSeq(l, 5, Len(l) - 1)),
     amount |-> NumValue[l[Len(l)]],
     balance |-> None]

\* One turn of the line loop of _parse_transaction_page
CardLine(st, l, year) ==
    IF CardHeader(l) THEN [inside |-> TRUE, txs |-> st.txs]
    ELSE IF Contains(l, <<"Card", "number">>) THEN st
    ELSE IF CardFooter(l) THEN [inside |-> FALSE, txs |-> st.txs]
    ELSE IF ~st.inside THEN st
    ELSE IF CardSkip(l) THEN st
    ELSE IF CardRowMatch(l)
         THEN [inside |-> st.inside, txs |-> Append(st.txs, CardRecord(l, year))]
         ELSE st

-----------------------------------------------------------------------------
(* The line loops, one line at a time *)

\* Bounds of the line-by-line runs: records kept before the run stops.
MaxParsed == 2

\* Lines a bank statement page can hold
BankLines ==
    {<<"Sep", "2", "VISA", "DEBIT", "RETAIL", "PURCHASE", "37.67", "898.18">>,
     <<"Sep", "02", "VISA", "DEBIT", "RETAIL", "PURCHASE", "1,234.50", "898.18">>,
     <<"Sep", "2", "PAYROLL", "DEPOSIT", "100.00", "898.18">>,
     <<"Sep", "2", "Opening", "balance", "37.67", "898.18">>,
     <<"Sep", "2", "Transaction", "details", "37.67", "898.18">>,
     <<"Sep", "2", "VISA", "37.67", "100.00", "898.18">>,
     <<"Feb", "30", "VISA", "DEBIT", "37.67", "898.18">>,
     <<"Feb", "29", "VISA", "DEBIT", "37.67", "898.18">>,
     <<"Xyz", "02", "VISA", "DEBIT", "37.67", "898.18">>,
     <<"Sep", "2", "VISA", "DEBIT", "37.67">>,
     <<"Date", "Description", "Withdrawals", "Deposits", "Balance">>,
     <<"Transaction", "details">>,
     <<"Opening", "balance", "898.18">>,
     <<"Page", "1", "of", "2">>,
     <<"Closing", "balance", "898.18">>}

\* Lines a card statement page can hold
CardLines ==
    {<<"Sep", "02", "Sep", "08", "SHOP", "MART", "37.67">>,
     <<"Sep", "02", "Sep", "08", "SHOPPERS", "DRUG", "MART", "#13", "TORONTO", "ON",
       "Health", "and", "Education", "37.67">>,
     <<"Sep", "02", "Sep", "08", "SHOP", "Restaurants", "37.67">>,
     <<"Sep", "02", "Sep", "08", "Restaurants", "37.67">>,
     <<"Sep", "02", "Sep", "08", "Gas", "Stations", "SHOP", "37.67">>,
     <<"Sep", "02", "Sep", "08", "SHOP", "Restaurants", "Gas", "Stations", "1,234.50">>,
     <<"Sep", "02", "Sep", "08", "Pageant", "Professional", "and", "Financial",
       "Services", "37.67">>,
     <<"Feb", "30", "Sep", "08", "SHOP", "MART", "37.67">>,
     <<"Sep", "2", "Sep", "08", "SHOP", "MART", "37.67">>,
     <<"Sep", "02", "Sep", "08", "PAYMENT", "THANK", "YOU", "100.00">>,
     <<"Trans", "Post">>,
     <<"date", "date", "Description", "Spend", "Categories", "Amount">>,
     <<"Card", "number", "4505", "XXXX", "XXXX", "7008">>,
     <<"Page", "1", "of", "2">>,
     <<"Information", "about", "your", "account">>,
     <<"Total", "payments", "100.00">>,
     <<"A-tilde">>,
     <<"Your", "new", "charges", "and", "credits">>}

\* The processes that have the database file open
Workers == {1, 2}

\* A connection just opened: nothing to do, no transaction begun
IdleWorker ==
    [todo |-> <<>>, in_transaction |-> FALSE, pending |-> <<>>, results |-> <<>>,
     raised |-> FALSE]

InitStore ==
    /\ workers = [w \in Workers |-> IdleWorker]
    /\ accounts = <<>>
    /\ categories = <<>>
    /\ transactions = <<>>
    /\ snapshot = <<>>
    /\ ingested = {}
    /\ submitted = {}

InitLines ==
    /\ InitStore
    /\ current_year \in Years
    /\ statement_type \in {"bank_account", "credit_card", "unknown"}
    /\ in_transaction_section = FALSE
    /\ parsed = <<>>
    /\ pages = <<>>
    /\ account_info = None
    /\ last = [op |-> "open"]

NextPageKeepingSection ==
    /\ last.op = "line"
    /\ in_transaction_section' = in_transaction_section
    /\ last' = [op |-> "page"]
    /\ UNCHANGED <<workers, storeVars, current_year, statement_type, parsed, pages,
                   account_info>>

\* for page in self.pdf.pages: the flag starts False on every page
NextPage ==
    /\ last.op = "line"
    /\ in_transaction_section' = FALSE
    /\ last' = [op |-> "page"]
    /\ UNCHANGED <<workers, storeVars, current_year, statement_type, parsed, pages, account_info>>

\* The parser's state as a line loop takes it: the flag and the list so far
LoopState == [inside |-> in_transaction_section, txs |-> parsed]

\* One line read: st is what the loop's turn on line l makes of LoopState
ReadLine(st, l) ==
        /\ Len(parsed) < MaxParsed
        /\ in_transaction_section' = st.inside
        /\ parsed' = st.txs
        /\ last' = [op |-> "line", line |-> l, inside |-> in_transaction_section,
                    emitted |-> Len(st.txs) - Len(parsed)]
        /\ UNCHANGED <<workers, storeVars, current_year, statement_type, pages, account_info>>

\* for line in lines, in _parse_bank_account_transactions
ReadBankLine ==
    /\ statement_type = "bank_account"
    /\ \E l \in BankLines : ReadLine(BankLine(LoopState, l, current_year), l)

\* for i, line in enumerate(lines), in _parse_transaction_page; parse_transactions
\* takes this path for every statement type but bank_account
ReadCardLine ==
    /\ statement_type # "bank_account"
    /\ \E l \in CardLines : ReadLine(CardLine(LoopState, l, current_year), l)

NextLines == ReadBankLine \/ ReadCardLine \/ NextPage

SpecLines == InitLines /\ [][NextLines]_vars

-----------------------------------------------------------------------------
(* Bank rows *)

\* A line of the form <month> <day> <description> <amount> <balance>
BankRowForm(l) ==
    /\ Len(l) >= 5
    /\ l[1] \in DOMAIN MonthNumber
    /\ l[2] \in DOMAIN DayValue
    /\ l[Len(l) - 1] \in NumTok
    /\ l[Len(l)] \in NumTok

\* <month> <day> names a day of the calendar of year y
ValidDate(l, y) == DayValue[l[2]] \in 1..DaysIn(MonthNumber[l[1]], y)

\* The record the row stands for: <year>-MM-DD, the text between the date and
\* the two trailing numbers, the first number negated, the second as it is.
BankRowRecord(l, y) ==
    [date |-> <<ToString(y), "-", Pad2(MonthNumber[l[1]]), "-", Pad2(DayValue[l[2]])>>,
     description |-> SubSeq(l, 3, Len(l) - 2),
     amount |-> 0 - NumValue[l[Len(l) - 1]],
     balance |-> <<NumValue[l[Len(l)]]>>]

BankStepInside ==
    /\ last.op = "line"
    /\ statement_type = "bank_account"
    /\ last.inside

\* C7 as stated: in the bank-account layout every line seen inside the
\* transaction section that has the form <month> <day> <description> <amount>
\* <balance> yields exactly one record, dated <current-year>-MM-DD, with the
\* amount negated and the balance unmodified.
C7_EveryRowFormLine ==
    (BankStepInside /\ BankRowForm(last.line)) =>
        /\ last.emitted = 1
        /\ Last(parsed) = BankRowRecord(last.line, current_year)

\* C7 amended: a line seen inside the section that has the row form, names a
\* valid day of the current year and contains neither "Opening balance" nor a
\* header marker appends exactly one record to the list (line order): the date
\* <current-year>-MM-DD, the description between the date and the two trailing
\* numbers, the first number negated as amount and the second as balance.
C7_BankRow ==
    [][(/\ last'.op = "line"
        /\ statement_type = "bank_account"
        /\ in_transaction_section
        /\ BankRowForm(last'.line)
        /\ ValidDate(last'.line, current_year)
        /\ ~Contains(last'.line, <<"Opening", "balance">>)
        /\ ~BankHeader(last'.line))
       => parsed' = Append(parsed, BankRowRecord(last'.line, current_year))]_vars

\* The spec's end-to-end row was read as the second row of a page and gave
\* amount -37.67 and balance 898.18.
C7_Witness ==
    /\ BankStepInside
    /\ last.line = <<"Sep", "2", "VISA", "DEBIT", "RETAIL", "PURCHASE", "37.67", "898.18">>
    /\ last.emitted = 1
    /\ Len(parsed) = 2
    /\ parsed[2].date[3] = "09" /\ parsed[2].date[5] = "02"
    /\ parsed[2].amount = 0 - 3767
    /\ parsed[2].balance = <<89818>>

\* How a bank statement shows a deposit row: by its description.
DepositRow(l) == Contains(l, <<"DEPOSIT">>)

\* C8: for bank-style statements a withdrawal row is stored with a negative
\* amount and a deposit row with a positive amount.
C8_SignedByDirection ==
    (last.op = "line" /\ statement_type = "bank_account" /\ last.emitted = 1) =>
        IF DepositRow(last.line) THEN Last(parsed).amount > 0
                                 ELSE Last(parsed).amount < 0

-----------------------------------------------------------------------------
(* Card rows *)

CardStepMatched ==
    /\ last.op = "line"
    /\ statement_type # "bank_account"
    /\ last.emitted = 1

\* The description group of a matched card row
RawDescription(l) == SubSeq(l, 5, Len(l) - 1)

\* C9 as stated: the label is removed whenever it is the end of the
\* description, and the description is stored unchanged otherwise.
C9_LabelAtEndRemoved ==
    CardStepMatched =>
        LET d == RawDescription(last.line)
        IN  IF \E L \in Labels : EndsWith(d, L)
            THEN \E L \in Labels : EndsWith(d, L) /\ Last(parsed).description \o L = d
            ELSE Last(parsed).description = d

\* C9 amended: the label is removed when it is the end of the description and
\* text precedes it (the pattern takes the label with the whitespace before
\* it); otherwise, also when the label is the whole description or stands
\* elsewhere than at the end, the description is stored unchanged.
C9_TrailingLabel ==
    CardStepMatched =>
        LET d == RawDescription(last.line)
        IN  IF \E L \in Labels : EndsWith(d, L) /\ d # L
            THEN \E L \in Labels : EndsWith(d, L) /\ Last(parsed).description \o L = d
            ELSE Last(parsed).description = d

\* The spec's example row was stored without its trailing label.
C9_Witness ==
    /\ CardStepMatched
    /\ RawDescription(last.line) =
         <<"SHOPPERS", "DRUG", "MART", "#13", "TORONTO", "ON", "Health", "and", "Education">>
    /\ Last(parsed).description = <<"SHOPPERS", "DRUG", "MART", "#13", "TORONTO", "ON">>

-----------------------------------------------------------------------------
(* Categorizer.categorize *)

\* A category row is [id, name, parent_id, keywords]; the keywords column is
\* None or the list json.dumps wrote and json.loads reads back.

\* keyword.lower() in description_lower, for some keyword of the category
KeywordHit(category, description) ==
    /\ category.keywords # None
    /\ \E k \in 1..Len(category.keywords[1]) :
           Contains(Lower(description), Lower(category.keywords[1][k]))

RECURSIVE categorize_last(_, _)
categorize_last(cats, description) ==
    IF cats = <<>> THEN None
    ELSE IF KeywordHit(Last(cats), description) THEN Some(Last(cats).id)
    ELSE categorize_last(Front(cats), description)

\* Categorizer.categorize over the list self.categories: the id of the first
\* category with a keyword hit, or None
RECURSIVE categorize(_, _)
categorize(cats, description) ==
    IF cats = <<>> THEN None
    ELSE IF KeywordHit(Head(cats), description) THEN Some(Head(cats).id)
    ELSE categorize(Tail(cats), description)

\* Bound of the categorize runs: categories in the snapshot.
MaxSnapshot == 2

CategoryNames == <<"A", "B", "C", "D">>

\* Keyword columns a category can have
KeywordChoices == {None, Some(<<<<"shop">>>>), Some(<<<<"shop">>, <<"mart">>>>),
                   Some(<<<<"Mart">>>>), Some(<<<<"uber", "eats">>>>)}

\* Descriptions handed to categorize
CategorizeInputs == {<<"mart", "shop">>, <<"SHOP", "MART">>, <<"WALMART", "#13">>,
                     <<"uber", "eats">>, <<"uber">>, <<"Shop">>}

Snapshots ==
    UNION {{[i \in 1..n |-> [id |-> i, name |-> CategoryNames[i], parent_id |-> None,
                              keywords |-> kw[i]]] : kw \in [1..n -> KeywordChoices]}
           : n \in 0..MaxSnapshot}

InitParser ==
    /\ statement_type = "unknown"
    /\ in_transaction_section = FALSE
    /\ parsed = <<>>
    /\ pages = <<>>
    /\ account_info = None

InitCategorize ==
    /\ snapshot \in Snapshots
    /\ workers = [w \in Workers |-> IdleWorker]
    /\ categories = snapshot
    /\ accounts = <<>>
    /\ transactions = <<>>
    /\ ingested = {}
    /\ submitted = {}
    /\ current_year \in Years
    /\ InitParser
    /\ last = [op |-> "open"]

\* A call categorizer.categorize(description)
Categorize ==
    \E d \in CategorizeInputs :
        /\ last' = [op |-> "categorize", description |-> d, ret |-> categorize(snapshot, d)]
        /\ UNCHANGED <<workers, storeVars, current_year, parserVars>>

NextCategorize == Categorize

SpecCategorize == InitCategorize /\ [][NextCategorize]_vars

\* A keyword of the category occurs in the description, letter case aside
CaseInsensitiveHit(category, description) ==
    /\ category.keywords # None
    /\ category.keywords[1] # <<>>
    /\ \E k \in 1..Len(category.keywords[1]) :
           Contains(Lower(description), Lower(category.keywords[1][k]))

\* C6: categorize returns the identity of the first category, in the
\* snapshot's loaded order, that has a non-empty keyword set with a keyword
\* occurring in the description letter case aside; it returns None exactly when
\* no category has such a keyword; the earlier-loaded of two matches wins.
C6_FirstMatchWins ==
    last.op = "categorize" =>
        LET hits == {i \in 1..Len(snapshot) : CaseInsensitiveHit(snapshot[i], last.description)}
        IN  /\ (hits = {}) <=> (last.ret = None)
            /\ hits # {} =>
                 \E i \in hits : /\ \A j \in hits : i <= j
                                 /\ last.ret = Some(snapshot[i].id)

\* A{shop} loaded before B{shop, mart}: "mart shop" gives A.
C6_Witness ==
    /\ last.op = "categorize"
    /\ Len(snapshot) >= 2
    /\ snapshot[1].keywords = Some(<<<<"shop">>>>)
    /\ snapshot[2].keywords = Some(<<<<"shop">>, <<"mart">>>>)
    /\ last.description = <<"mart", "shop">>
    /\ last.ret = Some(snapshot[1].id)

-----------------------------------------------------------------------------
(* CIBCParser on a whole document *)

\* `phrase in text` for the text of a page: the phrase holds no line break
PageContains(page, phrase) == \E i \in 1..Len(page) : Contains(page[i], phrase)

RECURSIVE Flatten(_)
\* The tokens of a page, line breaks being whitespace to \s
Flatten(page) == IF page = <<>> THEN <<>> ELSE Head(page) \o Flatten(Tail(page))

detect_card_first(first_page) ==
    IF \/ PageContains(first_page, <<"Visa">>)
       \/ PageContains(first_page, <<"Credit", "Card">>)
    THEN "credit_card"
    ELSE IF /\ PageContains(first_page, <<"Account", "Statement">>)
            /\ PageContains(first_page, <<"Branch", "transit", "number">>)
         THEN "bank_account"
         ELSE "unknown"

\* _detect_statement_type
detect_statement_type(first_page) ==
    IF /\ PageContains(first_page, <<"Account", "Statement">>)
       /\ PageContains(first_page, <<"Branch", "transit", "number">>)
    THEN "bank_account"
    ELSE IF \/ PageContains(first_page, <<"Visa">>)
            \/ PageContains(first_page, <<"Credit", "Card">>)
         THEN "credit_card"
         ELSE "unknown"

\* Tokens matching \d{2}-\d{5}
BankNumberTok == {"87-40798"}

\* Tokens matching \d{4}
Digits4 == {"4505", "7008"}

\* Tokens matching X+
MaskTok == {"XXXX"}

\* Where (\d{4}\s+X+\s+X+\s+\d{4}) matches in a token list
CardGroupAt(t, i) ==
    /\ i >= 1 /\ i + 3 <= Len(t)
    /\ t[i] \in Digits4 /\ t[i + 1] \in MaskTok
    /\ t[i + 2] \in MaskTok /\ t[i + 3] \in Digits4

\* group(1).replace(' ', '')
CardNumber(t, i) == t[i] \o t[i + 1] \o t[i + 2] \o t[i + 3]

AfterAccountNumber(t, i) ==
    i >= 3 /\ t[i - 2] = "Account" /\ t[i - 1] = "number"

Least(S) == CHOOSE i \in S : \A j \in S : i <= j

\* extract_account_info
extract_account_info(type, first_page) ==
    LET t == Flatten(first_page)
        bank == {i \in 1..Len(t) : t[i] \in BankNumberTok /\ AfterAccountNumber(t, i)}
        labelled == {i \in 1..Len(t) : CardGroupAt(t, i) /\ AfterAccountNumber(t, i)}
        any == {i \in 1..Len(t) : CardGroupAt(t, i)}
    IN  IF type = "bank_account"
        THEN [account_number |-> IF bank # {} THEN t[Least(bank)] ELSE "UNKNOWN",
              account_name |-> None,
              account_type |-> "CIBC Bank Account"]
        ELSE [account_number |->
                  IF labelled # {} THEN CardNumber(t, Least(labelled))
                  ELSE IF any # {} THEN CardNumber(t, Least(any))
                  ELSE "UNKNOWN",
              account_name |-> None,
              account_type |->
                  IF PageContains(first_page, <<"Dividend">>) THEN "CIBC Dividend Visa"
                  ELSE IF PageContains(first_page, <<"Aventura">>) THEN "CIBC Aventura"
                  ELSE "CIBC Credit Card"]

RECURSIVE bank_lines(_, _, _)
\* for line in lines, of _parse_bank_account_transactions
bank_lines(st, lines, year) ==
    IF lines = <<>> THEN st
    ELSE bank_lines(BankLine(st, Head(lines), year), Tail(lines), year)

RECURSIVE parse_bank_account_transactions(_, _, _)
\* _parse_bank_account_transactions, on the pages left, with the list so far
parse_bank_account_transactions(txs, pgs, year) ==
    IF pgs = <<>> THEN txs
    ELSE parse_bank_account_transactions(
             bank_lines([inside |-> FALSE, txs |-> txs], Head(pgs), year).txs,
             Tail(pgs), year)

RECURSIVE card_lines(_, _, _)
\* for i, line in enumerate(lines), of _parse_transaction_page
card_lines(st, lines, year) ==
    IF lines = <<>> THEN st
    ELSE card_lines(CardLine(st, Head(lines), year), Tail(lines), year)

\* _parse_transaction_page
parse_transaction_page(page, year) ==
    card_lines([inside |-> FALSE, txs |-> <<>>], page, year).txs

PageGateOpen(page) == TRUE

\* The test of _parse_credit_card_transactions for a page to be parsed
PageGate(page) ==
    \/ PageContains(page, <<"Your", "new", "charges", "and", "credits">>)
    \/ PageContains(page, <<"Transactions">>)

RECURSIVE parse_credit_card_transactions(_, _, _)
\* _parse_credit_card_transactions, on the pages left, with the list so far
parse_credit_card_transactions(txs, pgs, year) ==
    IF pgs = <<>> THEN txs
    ELSE parse_credit_card_transactions(
             IF PageGate(Head(pgs)) THEN txs \o parse_transaction_page(Head(pgs), year)
                                    ELSE txs,
             Tail(pgs), year)

\* parse_transactions
parse_transactions(type, pgs, year) ==
    IF type = "bank_account" THEN parse_bank_account_transactions(<<>>, pgs, year)
    ELSE parse_credit_card_transactions(<<>>, pgs, year)

-----------------------------------------------------------------------------
(* Documents *)

\* Bound of the document runs: pages of a document.
MaxPages == 2

\* First pages: the statement's head
FirstPages ==
    {<<<<"Account", "Statement">>, <<"Branch", "transit", "number", "00123">>,
       <<"Account", "number">>, <<"87-40798">>>>,
     <<<<"Account", "Statement">>, <<"Branch", "transit", "number", "00123">>,
       <<"CIBC", "Visa", "Debit">>>>,
     <<<<"CIBC", "Dividend", "Visa">>,
       <<"Account", "number", "4505", "XXXX", "XXXX", "7008">>>>,
     <<<<"Aventura", "Credit", "Card">>, <<"Card", "4505", "XXXX", "XXXX", "7008">>>>,
     <<<<"Account", "Statement">>, <<"Account", "number">>, <<"87-40798">>>>,
     <<<<"Statement", "for", "4505", "XXXX", "XXXX", "7008">>>>,
     <<<<"Monthly", "summary">>>>,
     <<<<"Transactions">>, <<"Trans", "Post">>,
       <<"Sep", "02", "Sep", "08", "SHOP", "MART", "37.67">>>>}

\* Pages that follow
OtherPages ==
    {<<<<"Date", "Description", "Withdrawals", "Deposits", "Balance">>,
       <<"Sep", "2", "VISA", "DEBIT", "RETAIL", "PURCHASE", "37.67", "898.18">>,
       <<"Sep", "2", "PAYROLL", "DEPOSIT", "100.00", "898.18">>>>,
     <<<<"Your", "new", "charges", "and", "credits">>, <<"Trans", "Post">>,
       <<"Sep", "02", "Sep", "08", "SHOP", "Restaurants", "37.67">>,
       <<"Page", "1", "of", "2">>,
       <<"Sep", "02", "Sep", "08", "SHOP", "MART", "37.67">>>>,
     <<<<"Trans", "Post">>,
       <<"Sep", "02", "Sep", "08", "SHOP", "MART", "37.67">>>>,
     <<<<"Sep", "2", "VISA", "DEBIT", "RETAIL", "PURCHASE", "37.67", "898.18">>,
       <<"Sep", "02", "Sep", "08", "SHOP", "MART", "37.67">>>>}

RECURSIVE PageLists(_)
\* The lists of at most n following pages
PageLists(n) ==
    IF n = 0 THEN {<<>>}
    ELSE PageLists(n - 1) \cup
         {Append(ps, p) : ps \in {q \in PageLists(n - 1) : Len(q) = n - 1}, p \in OtherPages}

Documents == {<<f>> \o ps : f \in FirstPages, ps \in PageLists(MaxPages - 1)}

InitDoc ==
    /\ InitStore
    /\ current_year \in Years
    /\ pages \in Documents
    /\ statement_type = "closed"
    /\ in_transaction_section = FALSE
    /\ parsed = <<>>
    /\ account_info = None
    /\ last = [op |-> "open"]

\* CIBCParser(pdf_path)
OpenPdf ==
    /\ statement_type = "closed"
    /\ statement_type' = detect_statement_type(pages[1])
    /\ last' = [op |-> "CIBCParser"]
    /\ UNCHANGED <<workers, storeVars, current_year, in_transaction_section, parsed, pages,
                   account_info>>

\* parser.extract_account_info()
ExtractAccountInfo ==
    /\ statement_type # "closed"
    /\ account_info' = Some(extract_account_info(statement_type, pages[1]))
    /\ last' = [op |-> "extract_account_info"]
    /\ UNCHANGED <<workers, storeVars, current_year, statement_type, in_transaction_section,
                   parsed, pages>>

\* parser.parse_transactions()
ParseTransactions ==
    /\ statement_type # "closed"
    /\ parsed' = parse_transactions(statement_type, pages, current_year)
    /\ last' = [op |-> "parse_transactions"]
    /\ UNCHANGED <<workers, storeVars, current_year, statement_type, in_transaction_section,
                   pages, account_info>>

NextDoc == OpenPdf \/ ExtractAccountInfo \/ ParseTransactions

SpecDoc == InitDoc /\ [][NextDoc]_vars

\* The first page holds none of the layout markers
NoLayoutMarker(first_page) ==
    /\ ~(/\ PageContains(first_page, <<"Account", "Statement">>)
         /\ PageContains(first_page, <<"Branch", "transit", "number">>))
    /\ ~PageContains(first_page, <<"Visa">>)
    /\ ~PageContains(first_page, <<"Credit", "Card">>)

\* The first page shows a masked card number: dddd X.. X.. dddd
ShowsMaskedNumber(first_page) ==
    \E k \in 1..Len(Flatten(first_page)) : CardGroupAt(Flatten(first_page), k)

\* Some page holds one of the card section markers
SectionMarkerOnSomePage ==
    \E i \in 1..Len(pages) : \E k \in 1..Len(pages[i]) :
        \/ Contains(pages[i][k], <<"Your", "new", "charges", "and", "credits">>)
        \/ Contains(pages[i][k], <<"Transactions">>)

-----------------------------------------------------------------------------
(* Database: accounts *)

\* Rows are kept in rowid order; AUTOINCREMENT with no delete numbers them 1, 2, ...

add_account_always_insert(accts, number, name, type) ==
    Append(accts, [id |-> Len(accts) + 1, account_number |-> number,
                   account_name |-> name, account_type |-> type])

\* add_account were its INSERT to replace the row of a registered number
add_account_replace(accts, number, name, type) ==
    IF \E i \in 1..Len(accts) : accts[i].account_number = number
    THEN [i \in 1..Len(accts) |->
             IF accts[i].account_number = number
             THEN [accts[i] EXCEPT !.account_name = name, !.account_type = type]
             ELSE accts[i]]
    ELSE Append(accts, [id |-> Len(accts) + 1, account_number |-> number,
                        account_name |-> name, account_type |-> type])

\* The INSERT OR IGNORE of add_account: account_number is UNIQUE
add_account_rows(accts, number, name, type) ==
    IF \E i \in 1..Len(accts) : accts[i].account_number = number
    THEN accts
    ELSE Append(accts, [id |-> Len(accts) + 1, account_number |-> number,
                        account_name |-> name, account_type |-> type])

\* The SELECT of add_account: the id add_account returns
add_account_id(accts, number) ==
    accts[Least({i \in 1..Len(accts) : accts[i].account_number = number})].id

\* Bound of the store runs: rows in table accounts.
MaxAccounts == 2

AccountNumbers == {"87-40798", "4505XXXXXXXX7008", "UNKNOWN"}

AccountNames == {None, Some("Joint")}

AccountTypes == {"CIBC Bank Account", "CIBC Credit Card"}

InitLedger ==
    /\ InitStore
    /\ InitParser
    /\ current_year \in {2027}
    /\ last = [op |-> "open"]

\* A call db.add_account(account_number, account_name, account_type)
AddAccount ==
    \E n \in AccountNumbers, nm \in AccountNames, t \in AccountTypes :
        LET rows == add_account_rows(accounts, n, nm, t)
        IN  /\ Len(rows) <= MaxAccounts
            /\ accounts' = rows
            /\ last' = [op |-> "add_account", account_number |-> n, account_name |-> nm,
                        account_type |-> t, rows |-> Len(accounts),
                        ret |-> add_account_id(rows, n)]
            /\ UNCHANGED <<workers, categories, transactions, snapshot, ingested, submitted,
                           current_year, parserVars>>

NextAccounts == AddAccount

SpecAccounts == InitLedger /\ [][NextAccounts]_vars

\* C4: add_account is idempotent on the account number: there is at most one
\* row per number; a call for a number that is registered leaves the table as
\* it is and returns that row's identity; a call for a new number appends one
\* row, keeps the others and returns the new row's identity.  Rows keep their
\* number and identity, so every call for a number returns the same identity.
C4_AddAccountIdempotent ==
    [][last'.op = "add_account" =>
        LET old == {i \in 1..Len(accounts) :
                       accounts[i].account_number = last'.account_number}
        IN  /\ \A i, j \in 1..Len(accounts') :
                   accounts'[i].account_number = accounts'[j].account_number => i = j
            /\ \A i, j \in 1..Len(accounts') : accounts'[i].id = accounts'[j].id => i = j
            /\ old # {} => /\ accounts' = accounts
                           /\ \A i \in old : last'.ret = accounts[i].id
            /\ old = {} => /\ Len(accounts') = Len(accounts) + 1
                           /\ SubSeq(accounts', 1, Len(accounts)) = accounts
                           /\ Last(accounts').account_number = last'.account_number
                           /\ last'.ret = Last(accounts').id]_vars

\* A number registered first was registered again, with another name and
\* type, after a second account: no row was added and the first identity came
\* back.
C4_Witness ==
    /\ last.op = "add_account"
    /\ Len(accounts) = 2
    /\ last.rows = 2
    /\ accounts[1].account_number = last.account_number
    /\ accounts[1].account_name # last.account_name
    /\ accounts[1].account_type # last.account_type
    /\ last.ret = accounts[1].id

-----------------------------------------------------------------------------
(* Database: categories, and the Categorizer's writes *)

\* UNIQUE(name, parent_id) as SQLite enforces it: NULL is distinct from every
\* value in a UNIQUE index, so a row with a NULL parent_id never conflicts.
CategoryConflict(cats, name, parent_id) ==
    \E i \in 1..Len(cats) :
        /\ cats[i].name = name
        /\ parent_id # None
        /\ cats[i].parent_id = parent_id

\* json.dumps(keywords) if keywords else None
KeywordsColumn(keywords) == IF keywords = <<>> THEN None ELSE Some(keywords)

\* The INSERT of add_category
add_category_rows(cats, name, parent_id, keywords) ==
    IF CategoryConflict(cats, name, parent_id)
    THEN cats
    ELSE Append(cats, [id |-> Len(cats) + 1, name |-> name, parent_id |-> parent_id,
                       keywords |-> KeywordsColumn(keywords)])

\* What add_category returns: cursor.lastrowid, or on IntegrityError the id the
\* SELECT ... WHERE name = ? AND parent_id IS ? finds
add_category_id(cats, name, parent_id) ==
    IF CategoryConflict(cats, name, parent_id)
    THEN cats[Least({i \in 1..Len(cats) :
                        cats[i].name = name /\ cats[i].parent_id = parent_id})].id
    ELSE Len(cats) + 1

\* Database.get_categories
get_categories(cats) == cats

FindParentAnyLevel(snap, parent_name) ==
    LET hits == {i \in 1..Len(snap) : snap[i].name = parent_name}
    IN  IF hits = {} THEN None
        ELSE Some(snap[CHOOSE i \in hits : \A j \in hits : j <= i].id)

\* The parent lookup of add_category_with_keywords in self.categories
FindParent(snap, parent_name) ==
    LET hits == {i \in 1..Len(snap) :
                    snap[i].name = parent_name /\ snap[i].parent_id = None}
    IN  IF hits = {} THEN None ELSE Some(snap[Least(hits)].id)

\* Table categories after add_category_with_keywords(name, keywords, parent_name);
\* parent_name is None or Some(name)
add_category_with_keywords_rows(cats, snap, name, keywords, parent_name) ==
    IF parent_name = None \/ parent_name = Some("")
    THEN add_category_rows(cats, name, None, keywords)
    ELSE LET found == FindParent(snap, parent_name[1])
             withParent == IF found = None
                           THEN add_category_rows(cats, parent_name[1], None, <<>>)
                           ELSE cats
             parent_id == IF found = None
                          THEN Some(add_category_id(cats, parent_name[1], None))
                          ELSE found
         IN  add_category_rows(withParent, name, parent_id, keywords)

\* What add_category_with_keywords returns
add_category_with_keywords_id(cats, snap, name, keywords, parent_name) ==
    IF parent_name = None \/ parent_name = Some("")
    THEN add_category_id(cats, name, None)
    ELSE LET found == FindParent(snap, parent_name[1])
             withParent == IF found = None
                           THEN add_category_rows(cats, parent_name[1], None, <<>>)
                           ELSE cats
             parent_id == IF found = None
                          THEN Some(add_category_id(cats, parent_name[1], None))
                          ELSE found
         IN  add_category_id(withParent, name, parent_id)

\* Bound of the store runs: rows in table categories.
MaxCategories == 3

NewCategoryNames == {"Food", "Dining"}

ParentIds == {None, Some(1)}

KeywordLists == {<<>>, <<<<"shop">>>>}

\* A call db.add_category(name, parent_id, keywords); the snapshot is not reloaded
AddCategory ==
    \E n \in NewCategoryNames, pid \in ParentIds, kw \in KeywordLists :
        LET rows == add_category_rows(categories, n, pid, kw)
        IN  /\ Len(rows) <= MaxCategories
            /\ categories' = rows
            /\ last' = [op |-> "add_category", name |-> n, parent_id |-> pid,
                        rows |-> Len(categories),
                        ret |-> add_category_id(categories, n, pid)]
            /\ UNCHANGED <<workers, accounts, transactions, snapshot, ingested, submitted,
                           current_year, parserVars>>

\* add_category_with_keywords were it to return without self._load_categories()
AddCategoryWithKeywordsNoReload(n, kw, pn) ==
        LET rows == add_category_with_keywords_rows(categories, snapshot, n, kw, pn)
        IN  /\ Len(rows) <= MaxCategories
            /\ categories' = rows
            /\ snapshot' = snapshot
            /\ last' = [op |-> "add_category_with_keywords", name |-> n, keywords |-> kw,
                        parent_id |-> Last(rows).parent_id, rows |-> Len(categories),
                        ret |-> add_category_with_keywords_id(categories, snapshot, n, kw, pn)]
            /\ UNCHANGED <<workers, accounts, transactions, ingested, submitted,
                           current_year, parserVars>>

\* A call categorizer.add_category_with_keywords(n, kw, pn), with the reload
\* that ends it
AddCategoryWithKeywordsOf(n, kw, pn) ==
        LET rows == add_category_with_keywords_rows(categories, snapshot, n, kw, pn)
        IN  /\ Len(rows) <= MaxCategories
            /\ categories' = rows
            /\ snapshot' = get_categories(rows)
            /\ last' = [op |-> "add_category_with_keywords", name |-> n, keywords |-> kw,
                        parent_id |-> Last(rows).parent_id, rows |-> Len(categories),
                        ret |-> add_category_with_keywords_id(categories, snapshot, n, kw, pn)]
            /\ UNCHANGED <<workers, accounts, transactions, ingested, submitted,
                           current_year, parserVars>>

AddCategoryWithKeywords ==
    \E n \in NewCategoryNames, kw \in KeywordLists \ {<<>>}, pn \in {None, Some("Food")} :
        AddCategoryWithKeywordsOf(n, kw, pn)

NextCategories == AddCategory \/ AddCategoryWithKeywords

SpecCategories == InitLedger /\ [][NextCategories]_vars

\* C5: no two categories share the same (name, parent) pair, top-level
\* categories (no parent) included.
C5_UniqueNameParent ==
    \A i, j \in 1..Len(categories) :
        (categories[i].name = categories[j].name
         /\ categories[i].parent_id = categories[j].parent_id) => i = j

-----------------------------------------------------------------------------
(* Database: transactions *)

tx_hash_no_description(account_id, date, description, amount) ==
    <<ToString(account_id), "|">> \o date \o <<"|", ToString(amount)>>

\* hash_str = f"{account_id}|{date}|{description}|{amount}", as the text whose
\* md5 is the row's hash; md5 is taken to be collision-free, so the text stands
\* for its digest
tx_hash(account_id, date, description, amount) ==
    <<ToString(account_id), "|">> \o date \o <<"|">> \o description
        \o <<"|", ToString(amount)>>

\* hash TEXT UNIQUE NOT NULL
HashConflict(txs, h) == \E i \in 1..Len(txs) : txs[i].hash = h

TransactionRow(txs, account_id, date, description, amount, balance, category_id) ==
    [id |-> Len(txs) + 1, account_id |-> account_id, date |-> date,
     description |-> description, amount |-> amount, balance |-> balance,
     category_id |-> category_id,
     hash |-> tx_hash(account_id, date, description, amount)]

add_transaction_always_insert(txs, account_id, date, description, amount, balance, category_id) ==
    Append(txs, TransactionRow(txs, account_id, date, description, amount, balance,
                               category_id))

add_transaction_upsert(txs, account_id, date, description, amount, balance, category_id) ==
    LET h == tx_hash(account_id, date, description, amount)
    IN  IF HashConflict(txs, h)
        THEN [i \in 1..Len(txs) |->
                 IF txs[i].hash = h
                 THEN [txs[i] EXCEPT !.balance = balance, !.category_id = category_id]
                 ELSE txs[i]]
        ELSE Append(txs, TransactionRow(txs, account_id, date, description, amount,
                                        balance, category_id))

\* Table transactions after add_transaction: the INSERT, or nothing on
\* IntegrityError
add_transaction_rows(txs, account_id, date, description, amount, balance, category_id) ==
    IF HashConflict(txs, tx_hash(account_id, date, description, amount))
    THEN txs
    ELSE Append(txs, TransactionRow(txs, account_id, date, description, amount,
                                    balance, category_id))

\* What add_transaction returns: cursor.lastrowid, or None on IntegrityError
add_transaction_id(txs, account_id, date, description, amount) ==
    IF HashConflict(txs, tx_hash(account_id, date, description, amount))
    THEN None
    ELSE Some(Len(txs) + 1)

\* Bound of the store runs: rows in table transactions.
MaxTransactions == 2

AccountIds == {1, 2}

\* Dates as _parse_date returns them: ISO, or the text it could not parse
TransactionDates == {<<"2027", "-", "09", "-", "02">>, <<"Xyz", "02">>}

TransactionDescriptions == {<<"SHOP", "MART">>, <<"02", "|", "SHOP", "MART">>}

TransactionAmounts == {-3767}

\* (balance, category_id) of a call
TransactionExtras == {<<None, None>>, <<Some(89818), Some(1)>>}

\* The four fields of a row the hash is made of
Key(r) == <<r.account_id, r.date, r.description, r.amount>>

\* A call db.add_transaction(account_id, date, description, amount, balance,
\* category_id)
AddTransactionOf(a, d, x, m, e) ==
        LET rows == add_transaction_rows(transactions, a, d, x, m, e[1], e[2])
        IN  /\ Len(rows) <= MaxTransactions
            /\ transactions' = rows
            /\ submitted' = submitted \cup {<<a, d, x, m>>}
            /\ Cardinality(submitted') <= MaxTransactions
            /\ last' = [op |-> "add_transaction", account_id |-> a, date |-> d,
                        description |-> x, amount |-> m, balance |-> e[1],
                        category_id |-> e[2],
                        ret |-> add_transaction_id(transactions, a, d, x, m)]
            /\ UNCHANGED <<workers, accounts, categories, snapshot, ingested, current_year,
                           parserVars>>

AddTransaction ==
    \E a \in AccountIds, d \in TransactionDates, x \in TransactionDescriptions,
       m \in TransactionAmounts, e \in TransactionExtras :
        AddTransactionOf(a, d, x, m, e)

NextTransactions == AddTransaction

SpecTransactions == InitLedger /\ [][NextTransactions]_vars

\* C2: after any sequence of add_transaction calls no two stored rows have the
\* same (account, date, description, amount), and every tuple that was
\* submitted, however often and with whatever balance and category, is stored in
\* exactly one row.
C2_OneRowPerTuple ==
    /\ \A i, j \in 1..Len(transactions) :
           Key(transactions[i]) = Key(transactions[j]) => i = j
    /\ \A k \in submitted :
           Cardinality({i \in 1..Len(transactions) : Key(transactions[i]) = k}) = 1

\* A second submission of a stored tuple, with another balance, added no row.
C2_Witness ==
    /\ last.op = "add_transaction"
    /\ Len(transactions) = 2
    /\ \E i \in 1..2 :
           /\ Key(transactions[i]) = Key(last)
           /\ transactions[i].balance # last.balance
    /\ Cardinality(submitted) = 2

\* C3: add_transaction stores the row and returns its new id when no stored row
\* has the same hash; it returns None exactly when the hash is stored already,
\* and then leaves every stored row as it was, balance and category included.
C3_InsertOrNone ==
    [][last'.op = "add_transaction" =>
         LET h == <<ToString(last'.account_id), "|">> \o last'.date \o <<"|">>
                      \o last'.description \o <<"|", ToString(last'.amount)>>
             known == \E i \in 1..Len(transactions) : transactions[i].hash = h
         IN  /\ (last'.ret = None) <=> known
             /\ known => transactions' = transactions
             /\ ~known =>
                  /\ last'.ret = Some(Len(transactions) + 1)
                  /\ Len(transactions') = Len(transactions) + 1
                  /\ SubSeq(transactions', 1, Len(transactions)) = transactions
                  /\ Last(transactions').id = Len(transactions) + 1
                  /\ Last(transactions').hash = h
                  /\ Key(Last(transactions')) = Key(last')
                  /\ Last(transactions').balance = last'.balance
                  /\ Last(transactions').category_id = last'.category_id]_vars

\* A stored row without balance and category met a resubmission carrying both:
\* None came back and the row kept its NULLs.
C3_Witness ==
    /\ last.op = "add_transaction"
    /\ last.ret = None
    /\ last.balance # None
    /\ last.category_id # None
    /\ Len(transactions) = 1
    /\ Key(transactions[1]) = Key(last)
    /\ transactions[1].balance = None
    /\ transactions[1].category_id = None

-----------------------------------------------------------------------------
(* main.parse_pdf: the ingestion of one statement *)

RECURSIVE ingest(_, _, _, _)
\* for tx in transactions, of parse_pdf; st is [txs, new_count]: table
\* transactions and the count of inserts so far
ingest(st, account_id, records, snap) ==
    IF records = <<>> THEN st
    ELSE LET tx == Head(records)
             category_id == categorize(snap, tx.description)
             tx_id == add_transaction_id(st.txs, account_id, tx.date, tx.description,
                                         tx.amount)
         IN  ingest([txs |-> add_transaction_rows(st.txs, account_id, tx.date,
                                                  tx.description, tx.amount,
                                                  tx.balance, category_id),
                     new_count |-> IF tx_id # None THEN st.new_count + 1
                                   ELSE st.new_count],
                    account_id, Tail(records), snap)

\* The statements read: a bank statement of two rows, a card statement whose
\* second row follows the page footer, a page of rows with no layout marker,
\* and a page with no rows
Statements ==
    {<<<<<<"Account", "Statement">>, <<"Branch", "transit", "number", "00123">>,
         <<"Account", "number">>, <<"87-40798">>>>,
       <<<<"Date", "Description", "Withdrawals", "Deposits", "Balance">>,
         <<"Sep", "2", "VISA", "DEBIT", "RETAIL", "PURCHASE", "37.67", "898.18">>,
         <<"Sep", "2", "PAYROLL", "DEPOSIT", "100.00", "898.18">>>>>>,
     <<<<<<"CIBC", "Dividend", "Visa">>,
         <<"Account", "number", "4505", "XXXX", "XXXX", "7008">>>>,
       <<<<"Your", "new", "charges", "and", "credits">>, <<"Trans", "Post">>,
         <<"Sep", "02", "Sep", "08", "SHOP", "Restaurants", "37.67">>,
         <<"Page", "1", "of", "2">>,
         <<"Sep", "02", "Sep", "08", "SHOP", "MART", "37.67">>>>>>,
     <<<<<<"Transactions">>, <<"Trans", "Post">>,
         <<"Sep", "02", "Sep", "08", "SHOP", "MART", "37.67">>,
         <<"Feb", "29", "Sep", "08", "SHOP", "MART", "37.67">>>>>>,
     <<<<<<"Monthly", "summary">>>>>>}

\* Statements whose rows carry date text that is no calendar date: a bank
\* statement with a day its month never has and a month no calendar has, a bank
\* statement with 29 February beside a sound row, and a card statement
BadDateStatements ==
    {<<<<<<"Account", "Statement">>, <<"Branch", "transit", "number", "00123">>,
         <<"Account", "number">>, <<"87-40798">>>>,
       <<<<"Transaction", "details">>,
         <<"Feb", "30", "VISA", "DEBIT", "37.67", "898.18">>,
         <<"Xyz", "02", "VISA", "DEBIT", "37.67", "898.18">>>>>>,
     <<<<<<"Account", "Statement">>, <<"Branch", "transit", "number", "00123">>,
         <<"Account", "number">>, <<"87-40798">>>>,
       <<<<"Date", "Description", "Withdrawals", "Deposits", "Balance">>,
         <<"Feb", "29", "VISA", "DEBIT", "37.67", "898.18">>,
         <<"Closing", "balance", "898.18">>,
         <<"Sep", "2", "PAYROLL", "DEPOSIT", "100.00", "898.18">>>>>>,
     <<<<<<"CIBC", "Dividend", "Visa">>,
         <<"Account", "number", "4505", "XXXX", "XXXX", "7008">>>>,
       <<<<"Your", "new", "charges", "and", "credits">>, <<"Trans", "Post">>,
         <<"Feb", "30", "Sep", "08", "SHOP", "MART", "37.67">>,
         <<"Information", "about", "your", "account">>,
         <<"Feb", "29", "Sep", "08", "SHOP", "MART", "37.67">>>>>>}

\* What a CIBCParser made for a statement in a year gives parse_pdf: the layout
\* it detects, extract_account_info() and parse_transactions()
Reading ==
    [doc \in Statements \cup BadDateStatements |-> [year \in Years |->
        LET type == detect_statement_type(doc[1])
        IN  [statement_type |-> type,
             account_info |-> extract_account_info(type, doc[1]),
             transactions |-> parse_transactions(type, doc, year)]]]

\* main.parse_pdf(pdf_path, db, categorizer), start to end; the parser it makes
\* is closed when it returns
ParsePdfOf(doc) ==
        LET info == Reading[doc][current_year].account_info
            accts == add_account_rows(accounts, info.account_number, info.account_name,
                                      info.account_type)
            account_id == add_account_id(accts, info.account_number)
            found == Reading[doc][current_year].transactions
            done == ingest([txs |-> transactions, new_count |-> 0], account_id, found,
                           snapshot)
        IN  /\ Len(accts) <= MaxAccounts
            /\ Len(done.txs) <= MaxTransactions
            /\ accounts' = accts
            /\ transactions' = done.txs
            /\ ingested' = ingested \cup {<<doc, current_year>>}
            /\ last' = [op |-> "parse_pdf", doc |-> doc, year |-> current_year,
                        again |-> <<doc, current_year>> \in ingested,
                        account_id |-> account_id, found |-> found,
                        new_count |-> done.new_count]
            /\ UNCHANGED <<workers, categories, snapshot, submitted, current_year, parserVars>>

ParsePdf == \E doc \in Statements : ParsePdfOf(doc)

\* datetime.now().year moves on
NewYear ==
    /\ current_year + 1 \in Years
    /\ current_year' = current_year + 1
    /\ last' = [op |-> "new_year"]
    /\ UNCHANGED <<workers, storeVars, parserVars>>

Init == InitLedger

Next == ParsePdf \/ NewYear \/ AddCategoryWithKeywords

Spec == Init /\ [][Next]_vars

\* C1: running parse_pdf on a document that was already ingested in the same
\* calendar year inserts no row: the table has as many transactions after the
\* pass as before it, whatever happened to the store in between.
C1_ReingestAddsNothing ==
    [][(last'.op = "parse_pdf" /\ <<last'.doc, last'.year>> \in ingested) =>
           /\ Len(transactions') = Len(transactions)
           /\ last'.new_count = 0]_vars

\* A second pass over a statement with rows, after a category that matches one
\* of its rows was added: nothing new, and the stored row keeps no category.
C1_Witness ==
    /\ last.op = "parse_pdf"
    /\ last.again
    /\ Len(last.found) >= 1
    /\ last.new_count = 0
    /\ \E i \in 1..Len(transactions) :
           /\ transactions[i].account_id = last.account_id
           /\ transactions[i].description = last.found[1].description
           /\ transactions[i].category_id = None
           /\ categorize(snapshot, last.found[1].description) # None

-----------------------------------------------------------------------------
(* Layout detection *)

\* Both bank markers are on the first page
BothBankMarkers(first_page) ==
    /\ \E i \in 1..Len(first_page) : Contains(first_page[i], <<"Account", "Statement">>)
    /\ \E i \in 1..Len(first_page) :
           Contains(first_page[i], <<"Branch", "transit", "number">>)

\* A card-product marker is on the first page
CardMarker(first_page) ==
    \E i \in 1..Len(first_page) :
        \/ Contains(first_page[i], <<"Visa">>)
        \/ Contains(first_page[i], <<"Credit", "Card">>)

\* C11: the layout tag of an opened statement is one of bank_account,
\* credit_card, unknown: bank_account exactly when both bank markers are on the
\* first page, else credit_card exactly when a card marker is, else unknown.
C11_LayoutDecision ==
    statement_type # "closed" =>
        /\ statement_type \in {"bank_account", "credit_card", "unknown"}
        /\ (statement_type = "bank_account") <=> BothBankMarkers(pages[1])
        /\ (statement_type = "credit_card") <=>
               (~BothBankMarkers(pages[1]) /\ CardMarker(pages[1]))
        /\ (statement_type = "unknown") <=>
               (~BothBankMarkers(pages[1]) /\ ~CardMarker(pages[1]))

\* A first page with both bank markers and a card marker was tagged bank_account.
C11_Witness ==
    /\ statement_type = "bank_account"
    /\ BothBankMarkers(pages[1])
    /\ CardMarker(pages[1])

-----------------------------------------------------------------------------
(* Card rows: date, amount, balance *)

\* A line of the form <month> <day> <month> <day> <description> <amount>, the
\* days in two digits
CardRowForm(l) ==
    /\ Len(l) >= 6
    /\ l[1] \in DOMAIN MonthNumber /\ l[2] \in Digits2
    /\ l[3] \in DOMAIN MonthNumber /\ l[4] \in Digits2
    /\ l[Len(l)] \in NumTok

\* The date of the record a card row stands for: the first date of the line
CardRowDate(l, y) ==
    IF ValidDate(l, y)
    THEN <<ToString(y), "-", Pad2(MonthNumber[l[1]]), "-", Pad2(DayValue[l[2]])>>
    ELSE <<l[1], l[2]>>

\* A line holding one of the texts _parse_transaction_page acts on before it
\* tries the row pattern
CardMarkerLine(l) ==
    \/ Contains(l, <<"Trans", "Post">>)
    \/ Contains(l, <<"date", "date", "Description">>)
    \/ Contains(l, <<"Spend", "Categories">>)
    \/ Contains(l, <<"Card", "number">>)
    \/ (Contains(l, <<"Page">>) /\ Contains(l, <<"of">>))
    \/ Contains(l, <<"Information", "about", "your">>)
    \/ Contains(l, <<"PAYMENT", "THANK", "YOU">>)
    \/ Contains(l, <<"Total", "payments">>)

\* C12 as stated: in the credit-card layout every line seen inside the section
\* that has the row form yields exactly one record, dated by the first date,
\* with the trailing number as a positive amount and no balance.
C12_EveryCardRowLine ==
    (/\ last.op = "line"
     /\ statement_type # "bank_account"
     /\ last.inside
     /\ CardRowForm(last.line)) =>
        /\ last.emitted = 1
        /\ Last(parsed).date = CardRowDate(last.line, current_year)
        /\ Last(parsed).amount = NumValue[last.line[Len(last.line)]]
        /\ Last(parsed).balance = None

\* C12 amended: a line seen inside the section that has the row form and holds
\* no header, card-number, footer or payment marker appends exactly one record:
\* its date comes from the first date alone, its amount is the trailing number,
\* positive, and it has no balance.
C12_CardRow ==
    [][(/\ last'.op = "line"
        /\ statement_type # "bank_account"
        /\ in_transaction_section
        /\ CardRowForm(last'.line)
        /\ ~CardMarkerLine(last'.line))
       => /\ Len(parsed') = Len(parsed) + 1
          /\ SubSeq(parsed', 1, Len(parsed)) = parsed
          /\ Last(parsed').date = CardRowDate(last'.line, current_year)
          /\ Last(parsed').amount = NumValue[last'.line[Len(last'.line)]]
          /\ Last(parsed').amount > 0
          /\ Last(parsed').balance = None]_vars

\* A row dated Sep 02 and posted Sep 08 gave a record dated the 2nd, amount
\* 37.67, no balance.
C12_Witness ==
    /\ last.op = "line"
    /\ statement_type = "credit_card"
    /\ last.inside
    /\ last.line = <<"Sep", "02", "Sep", "08", "SHOP", "MART", "37.67">>
    /\ last.emitted = 1
    /\ Last(parsed).date = <<ToString(current_year), "-", "09", "-", "02">>
    /\ Last(parsed).amount = 3767
    /\ Last(parsed).balance = None

-----------------------------------------------------------------------------
(* Database.get_transactions *)

\* The tokens of the dates the model stores, in the byte order SQLite's BINARY
\* collation compares TEXT by
TokenOrder == <<"-", "02", "08", "09", "2027", "2028", "29", "30", "Feb", "Sep", "Xyz">>

TokenRank(t) == Least({i \in 1..Len(TokenOrder) : TokenOrder[i] = t})

RECURSIVE TextLess(_, _)
\* a < b for two TEXT values
TextLess(a, b) ==
    IF b = <<>> THEN FALSE
    ELSE IF a = <<>> THEN TRUE
    ELSE IF Head(a) = Head(b) THEN TextLess(Tail(a), Tail(b))
    ELSE TokenRank(Head(a)) < TokenRank(Head(b))

\* LEFT JOIN ... ON id: the row with that id, if there is one
RowById(table, id) ==
    IF id # None /\ id[1] \in 1..Len(table) THEN Some(table[id[1]]) ELSE None

\* One row of the SELECT of get_transactions
ListingRow(t, cats, accts) ==
    LET c == RowById(cats, t.category_id)
        pc == IF c = None THEN None ELSE RowById(cats, c[1].parent_id)
        a == RowById(accts, Some(t.account_id))
    IN  [id |-> t.id, date |-> t.date, description |-> t.description,
         amount |-> t.amount, balance |-> t.balance,
         category |-> IF c = None THEN None ELSE Some(c[1].name),
         parent_category |-> IF pc = None THEN None ELSE Some(pc[1].name),
         account_number |-> IF a = None THEN None ELSE Some(a[1].account_number),
         account_name |-> IF a = None THEN None ELSE a[1].account_name]

\* WHERE t.account_id = ?, added when account_id is truthy
ListingFilter(txs, account_id) ==
    {i \in 1..Len(txs) :
        (account_id # None /\ account_id # Some(0)) => txs[i].account_id = account_id[1]}

\* ORDER BY t.date DESC: the orders of the chosen rows the engine may return;
\* rows of equal date come in an order SQL leaves open
ListingOrders(txs, chosen) ==
    {p \in [1..Cardinality(chosen) -> chosen] :
        /\ \A i, j \in DOMAIN p : i # j => p[i] # p[j]
        /\ \A i, j \in DOMAIN p : i < j => ~TextLess(txs[p[i]].date, txs[p[j]].date)}

\* LIMIT n, added when limit is truthy
ListingCap(rows, limit) ==
    IF limit # None /\ limit # Some(0) /\ limit[1] < Len(rows)
    THEN SubSeq(rows, 1, limit[1])
    ELSE rows

\* The account_id arguments of a listing
ListingAccounts == {None, Some(1)}

\* The limit arguments of a listing
ListingLimits == {None, Some(0), Some(1), Some(2)}

\* A call db.get_transactions(account_id, limit)
GetTransactions ==
    \E a \in ListingAccounts, n \in ListingLimits :
      \E p \in ListingOrders(transactions, ListingFilter(transactions, a)) :
        /\ last' = [op |-> "get_transactions", account_id |-> a, limit |-> n,
                    ret |-> ListingCap([i \in DOMAIN p |->
                                           ListingRow(transactions[p[i]], categories,
                                                      accounts)], n)]
        /\ UNCHANGED <<workers, storeVars, current_year, parserVars>>

NextListing == AddTransaction \/ GetTransactions

SpecListing == InitLedger /\ [][NextListing]_vars

\* The stored rows a listing for this account is about
ListedIds(account_id) ==
    {transactions[i].id : i \in {j \in 1..Len(transactions) :
        account_id # None => transactions[j].account_id = account_id[1]}}

\* The date of the stored row with this id
DateOfId(id) == transactions[id].date

\* C13: get_transactions returns rows in non-increasing date order, only rows
\* of the account when an account is given, and, when a cap n >= 0 is given,
\* the first min(n, total) rows of the date-descending listing.
C13_SortedFilteredCapped ==
    last.op = "get_transactions" =>
        LET ret == last.ret
            all == ListedIds(last.account_id)
            got == {ret[i].id : i \in 1..Len(ret)}
            total == Cardinality(all)
        IN  /\ \A i, j \in 1..Len(ret) : i < j => ~TextLess(ret[i].date, ret[j].date)
            /\ \A i, j \in 1..Len(ret) : i # j => ret[i].id # ret[j].id
            /\ got \subseteq all
            /\ \A x \in got, y \in all \ got : ~TextLess(DateOfId(x), DateOfId(y))
            /\ last.limit = None => got = all
            /\ last.limit # None =>
                   Len(ret) = IF last.limit[1] < total THEN last.limit[1] ELSE total

-----------------------------------------------------------------------------
(* Two ingestion processes on one database file *)

\* The records both processes submit, as the parser gives them
SharedRecords ==
    {[date |-> d, description |-> x, amount |-> -3767, balance |-> Some(89818)] :
        d \in TransactionDates, x \in TransactionDescriptions}

RECURSIVE SeqsUpTo(_, _)
\* The lists of at most n members of S
SeqsUpTo(S, n) ==
    IF n = 0 THEN {<<>>}
    ELSE SeqsUpTo(S, n - 1) \cup
         {Append(q, x) : q \in {t \in SeqsUpTo(S, n - 1) : Len(t) = n - 1}, x \in S}

\* Both processes are handed the same records of the same account
InitConcurrent ==
    /\ \E recs \in SeqsUpTo(SharedRecords, MaxTransactions) \ {<<>>} :
           workers = [w \in Workers |-> [IdleWorker EXCEPT !.todo = recs]]
    /\ accounts = <<>>
    /\ categories = <<>>
    /\ transactions = <<>>
    /\ snapshot = <<>>
    /\ ingested = {}
    /\ submitted = {}
    /\ InitParser
    /\ current_year \in {2027}
    /\ last = [op |-> "open"]

\* No other connection has a transaction open: the write lock can be taken
LockFree(w) == \A v \in Workers \ {w} : ~workers[v].in_transaction

\* cursor.execute(INSERT ...) of add_transaction in process w: sqlite3 begins a
\* transaction, the INSERT takes the write lock, and either the row waits for the
\* commit or the UNIQUE hash raises IntegrityError and None is returned, the
\* transaction staying open
WorkerExecute(w) ==
    /\ workers[w].todo # <<>>
    /\ ~workers[w].raised
    /\ workers[w].pending = <<>>
    /\ LockFree(w)
    /\ LET r == Head(workers[w].todo)
       IN  IF HashConflict(transactions, tx_hash(1, r.date, r.description, r.amount))
           THEN workers' = [workers EXCEPT ![w] =
                    [@ EXCEPT !.todo = Tail(@), !.in_transaction = TRUE,
                              !.results = Append(@, [record |-> r,
                                                     outcome |-> "not inserted"])]]
           ELSE workers' = [workers EXCEPT ![w] =
                    [@ EXCEPT !.in_transaction = TRUE, !.pending = <<r>>]]
    /\ last' = [op |-> "execute", worker |-> w]
    /\ UNCHANGED <<storeVars, current_year, parserVars>>

\* self.conn.commit() and return cursor.lastrowid, in process w
WorkerCommit(w) ==
    /\ workers[w].pending # <<>>
    /\ LET r == workers[w].pending[1]
       IN  /\ transactions' = add_transaction_rows(transactions, 1, r.date,
                                                   r.description, r.amount, r.balance,
                                                   None)
           /\ workers' = [workers EXCEPT ![w] =
                  [@ EXCEPT !.todo = Tail(@), !.in_transaction = FALSE,
                            !.pending = <<>>,
                            !.results = Append(@, [record |-> r,
                                                   outcome |-> "inserted"])]]
    /\ last' = [op |-> "commit", worker |-> w]
    /\ UNCHANGED <<accounts, categories, snapshot, ingested, submitted, current_year,
                   parserVars>>

\* cursor.execute(INSERT ...) in process w while another process, which has no
\* call left to make, keeps its transaction open: the lock is not released and
\* after the connection's timeout sqlite3.OperationalError leaves add_transaction
WorkerLocked(w) ==
    /\ workers[w].todo # <<>>
    /\ ~workers[w].raised
    /\ workers[w].pending = <<>>
    /\ \E v \in Workers \ {w} :
           /\ workers[v].in_transaction
           /\ workers[v].pending = <<>>
           /\ workers[v].todo = <<>> \/ workers[v].raised
    /\ workers' = [workers EXCEPT ![w] =
           [@ EXCEPT !.raised = TRUE,
                     !.results = Append(@, [record |-> Head(workers[w].todo),
                                            outcome |-> "raised"])]]
    /\ last' = [op |-> "locked", worker |-> w]
    /\ UNCHANGED <<storeVars, current_year, parserVars>>

NextConcurrent ==
    \E w \in Workers : WorkerExecute(w) \/ WorkerCommit(w) \/ WorkerLocked(w)

SpecConcurrent == InitConcurrent /\ [][NextConcurrent]_vars

\* The calls made so far for record r that reported this outcome
CallsWith(r, outcome) ==
    {<<w, k>> \in Workers \X (1..MaxTransactions + 1) :
        /\ k <= Len(workers[w].results)
        /\ workers[w].results[k].record = r
        /\ workers[w].results[k].outcome = outcome}

\* Every hash is in at most one row, and at most one call per record reported
\* 'inserted'
OneRowPerHash ==
    /\ \A i, j \in 1..Len(transactions) :
           transactions[i].hash = transactions[j].hash => i = j
    /\ \A r \in SharedRecords : Cardinality(CallsWith(r, "inserted")) <= 1
    /\ \A r \in SharedRecords :
           CallsWith(r, "inserted") # {} <=>
               \E i \in 1..Len(transactions) :
                   /\ transactions[i].date = r.date
                   /\ transactions[i].description = r.description

\* C14: under any interleaving of two processes submitting the same records,
\* each hash is stored in exactly one row, exactly one of the calls for a record
\* reports 'inserted', and no call raises.
C14_ParallelInsertSafe ==
    /\ OneRowPerHash
    /\ \A w \in Workers : \A k \in 1..Len(workers[w].results) :
           workers[w].results[k].outcome # "raised"

-----------------------------------------------------------------------------
(* Database.update_account_name and main.recategorize_all *)

update_account_name_all(accts, number, custom_name) ==
    [i \in 1..Len(accts) |-> [accts[i] EXCEPT !.account_name = Some(custom_name)]]

\* UPDATE accounts SET account_name = ? WHERE account_number = ?
update_account_name_rows(accts, number, custom_name) ==
    [i \in 1..Len(accts) |->
        IF accts[i].account_number = number
        THEN [accts[i] EXCEPT !.account_name = Some(custom_name)]
        ELSE accts[i]]

\* cursor.rowcount > 0
update_account_name_ret(accts, number) ==
    \E i \in 1..Len(accts) : accts[i].account_number = number

\* The names a user gives an account
CustomNames == {"Home"}

\* A call db.update_account_name(account_number, custom_name)
UpdateAccountName ==
    \E n \in AccountNumbers, nm \in CustomNames :
        /\ accounts' = update_account_name_rows(accounts, n, nm)
        /\ last' = [op |-> "update_account_name", account_number |-> n,
                    custom_name |-> nm, ret |-> update_account_name_ret(accounts, n)]
        /\ UNCHANGED <<workers, categories, transactions, snapshot, ingested, submitted,
                       current_year, parserVars>>

recategorize_all_dropping(txs, snap) ==
    SelectSeq(txs, LAMBDA t : t.category_id # None \/ categorize(snap, t.description) # None)

\* recategorize_all were it to categorize every row anew
recategorize_all_overwriting(txs, snap) ==
    [i \in 1..Len(txs) |->
        IF categorize(snap, txs[i].description) # None
        THEN [txs[i] EXCEPT !.category_id = categorize(snap, txs[i].description)]
        ELSE txs[i]]

\* The rows recategorize_all selects: category_id IS NULL
Uncategorized(txs) == {i \in 1..Len(txs) : txs[i].category_id = None}

\* Table transactions after recategorize_all: each uncategorized row the
\* categorizer finds a category for gets it
recategorize_all_rows(txs, snap) ==
    [i \in 1..Len(txs) |->
        IF i \in Uncategorized(txs) /\ categorize(snap, txs[i].description) # None
        THEN [txs[i] EXCEPT !.category_id = categorize(snap, txs[i].description)]
        ELSE txs[i]]

\* updated_count of recategorize_all
recategorize_all_count(txs, snap) ==
    Cardinality({i \in Uncategorized(txs) : categorize(snap, txs[i].description) # None})

\* main.recategorize_all(db, categorizer)
RecategorizeAll ==
    /\ transactions' = recategorize_all_rows(transactions, snapshot)
    /\ last' = [op |-> "recategorize_all",
                uncategorized |-> Cardinality(Uncategorized(transactions)),
                updated_count |-> recategorize_all_count(transactions, snapshot)]
    /\ UNCHANGED <<workers, accounts, categories, snapshot, ingested, submitted,
                   current_year, parserVars>>

\* Bound of the ledger runs: rows in table categories.
MaxLedgerCategories == 1

\* add_category_with_keywords while the ledger runs' bound allows
LedgerAddCategory ==
    /\ AddCategoryWithKeywords
    /\ Len(categories') <= MaxLedgerCategories

NextLedger == ParsePdf \/ LedgerAddCategory \/ UpdateAccountName \/ RecategorizeAll

SpecLedger == InitLedger /\ [][NextLedger]_vars

\* C15: a stored transaction row is never deleted and its account, date,
\* description, amount, balance and hash never change, whatever operation runs
\* (ingestion, re-ingestion, add category, rename account, recategorize); its
\* category reference changes only in recategorize_all.
C15_StoredRowsFrozen ==
    [][/\ Len(transactions') >= Len(transactions)
       /\ \A i \in 1..Len(transactions) :
              /\ transactions'[i].id = transactions[i].id
              /\ transactions'[i].account_id = transactions[i].account_id
              /\ transactions'[i].date = transactions[i].date
              /\ transactions'[i].description = transactions[i].description
              /\ transactions'[i].amount = transactions[i].amount
              /\ transactions'[i].balance = transactions[i].balance
              /\ transactions'[i].hash = transactions[i].hash
              /\ transactions'[i].category_id # transactions[i].category_id
                     => last'.op = "recategorize_all"]_vars

\* recategorize_all gave a row stored without category its category, after a
\* rename of its account.
C15_Witness ==
    /\ last.op = "recategorize_all"
    /\ last.updated_count >= 1
    /\ \E i \in 1..Len(transactions) :
           /\ transactions[i].category_id # None
           /\ accounts[transactions[i].account_id].account_name # None

-----------------------------------------------------------------------------
(* Renaming accounts *)

NextRename == AddAccount \/ UpdateAccountName

SpecRename == InitLedger /\ [][NextRename]_vars

\* C16: update_account_name(number, name) returns true exactly when an account
\* with that number exists; then only that account's name changes, to the given
\* name; when it returns false nothing changes; the same call made again leaves
\* the store as it is.
C16_RenameAccount ==
    [][last'.op = "update_account_name" =>
         LET hit == {i \in 1..Len(accounts) :
                        accounts[i].account_number = last'.account_number}
         IN  /\ last'.ret <=> hit # {}
             /\ Len(accounts') = Len(accounts)
             /\ \A i \in 1..Len(accounts) :
                    /\ accounts'[i].id = accounts[i].id
                    /\ accounts'[i].account_number = accounts[i].account_number
                    /\ accounts'[i].account_type = accounts[i].account_type
                    /\ accounts'[i].account_name =
                           IF i \in hit THEN <<last'.custom_name>>
                                        ELSE accounts[i].account_name
             /\ ~last'.ret => accounts' = accounts
             /\ <<categories, transactions, snapshot>>' =
                    <<categories, transactions, snapshot>>
             /\ (/\ last.op = "update_account_name"
                 /\ last.account_number = last'.account_number
                 /\ last.custom_name = last'.custom_name) => accounts' = accounts]_vars

\* Of two accounts with other names, the second was renamed and the first kept
\* its name.
C16_Witness ==
    /\ last.op = "update_account_name"
    /\ last.ret
    /\ Len(accounts) = 2
    /\ accounts[2].account_number = last.account_number
    /\ accounts[2].account_name = <<last.custom_name>>
    /\ accounts[1].account_name # <<last.custom_name>>

-----------------------------------------------------------------------------
(* The section state machine *)

\* A page-number line or a section-end line
FooterLine(l) ==
    \/ (Contains(l, <<"Page">>) /\ Contains(l, <<"of">>))
    \/ Contains(l, <<"Information", "about", "your">>)

\* A line with the shape of a transaction row of the layout being read
RowShaped(l) ==
    IF statement_type = "bank_account" THEN BankRowForm(l) ELSE CardRowForm(l)

\* C17: in both layouts a footer or section-end marker line puts the page's
\* state machine outside the section: a row-shaped line read right after such a
\* line, with no header line in between, produces no record.
C17_FooterClosesSection ==
    [][(/\ last.op = "line"
        /\ FooterLine(last.line)
        /\ last'.op = "line"
        /\ RowShaped(last'.line))
       => /\ parsed' = parsed
          /\ last'.emitted = 0]_vars

\* A header marker line of the layout being read
HeaderLine(l) ==
    IF statement_type = "bank_account"
    THEN \/ Contains(l, <<"Date", "Description", "Withdrawals">>)
         \/ Contains(l, <<"Transaction", "details">>)
    ELSE \/ Contains(l, <<"Trans", "Post">>)
         \/ Contains(l, <<"date", "date", "Description">>)
         \/ Contains(l, <<"Spend", "Categories">>)

\* A line matching the row grammar of the layout being read
RowGrammar(l) ==
    IF statement_type = "bank_account"
    THEN /\ Len(l) >= 5 /\ l[1] \in Cap3 /\ l[2] \in Digits12
         /\ l[Len(l) - 1] \in NumTok /\ l[Len(l)] \in NumTok
    ELSE /\ Len(l) >= 6 /\ l[1] \in Cap3 /\ l[2] \in Digits2
         /\ l[3] \in Cap3 /\ l[4] \in Digits2 /\ l[Len(l)] \in NumTok

\* C18: every page starts outside the section, whatever state the page before
\* ended in; the state becomes inside only on a header line; a record comes only
\* from a line read while inside, so no line before the first header of its page
\* gives one; header lines and lines off the row grammar give no record.
C18_OnlyInsideLinesRecord ==
    [][/\ last'.op = "page" => ~in_transaction_section'
       /\ (~in_transaction_section /\ in_transaction_section') =>
              (last'.op = "line" /\ HeaderLine(last'.line))
       /\ last'.op = "line" =>
              /\ ~in_transaction_section => parsed' = parsed
              /\ HeaderLine(last'.line) => parsed' = parsed
              /\ ~RowGrammar(last'.line) => parsed' = parsed
              /\ Len(parsed') \in {Len(parsed), Len(parsed) + 1}]_vars

\* A bank page after one that gave a record: a row read before the page's
\* header gave nothing.
C18_Witness ==
    /\ last.op = "line"
    /\ statement_type = "bank_account"
    /\ ~last.inside
    /\ ~in_transaction_section
    /\ RowGrammar(last.line)
    /\ last.emitted = 0
    /\ Len(parsed) >= 1

-----------------------------------------------------------------------------
(* Categorizer.initialize_default_categories *)

\* default_categories, in the order the two loops visit it: the parent's name,
\* the subcategory's name, its keywords
DefaultCategories ==
    <<
     [parent |-> "Food", name |-> "Groceries",
      keywords |-> <<<<"loblaws">>, <<"metro">>, <<"walmart">>, <<"sobeys">>,
                    <<"safeway">>, <<"t&t">>, <<"supermarket">>>>],
     [parent |-> "Food", name |-> "Dining",
      keywords |-> <<<<"restaurant">>, <<"pizza">>, <<"mcdonald">>,
                    <<"tim", "horton">>, <<"starbucks">>, <<"uber", "eats">>,
                    <<"doordash">>, <<"osmow">>, <<"shawerma">>, <<"shozan">>>>],
     [parent |-> "Food", name |-> "Coffee",
      keywords |-> <<<<"starbucks">>, <<"tim", "hortons">>, <<"second", "cup">>,
                    <<"coffee">>>>],
     [parent |-> "Transportation", name |-> "Gas",
      keywords |-> <<<<"shell">>, <<"esso">>, <<"petro">>, <<"chevron">>,
                    <<"gas", "station">>>>],
     [parent |-> "Transportation", name |-> "Transit",
      keywords |-> <<<<"ttc">>, <<"presto">>, <<"transit">>, <<"communauto">>>>],
     [parent |-> "Transportation", name |-> "Ride Share",
      keywords |-> <<<<"uber">>, <<"lyft">>>>],
     [parent |-> "Shopping", name |-> "Retail",
      keywords |-> <<<<"amazon">>, <<"bestbuy">>, <<"walmart">>,
                    <<"shoppers", "drug", "mart">>>>],
     [parent |-> "Shopping", name |-> "Clothing",
      keywords |-> <<<<"zara">>, <<"h&m">>, <<"uniqlo">>, <<"gap">>>>],
     [parent |-> "Shopping", name |-> "Electronics",
      keywords |-> <<<<"apple">>, <<"bestbuy">>, <<"canada", "computers">>>>],
     [parent |-> "Health", name |-> "Pharmacy",
      keywords |-> <<<<"shoppers", "drug", "mart">>, <<"rexall">>, <<"pharmacy">>>>],
     [parent |-> "Health", name |-> "Medical",
      keywords |-> <<<<"hospital">>, <<"clinic">>, <<"doctor">>>>],
     [parent |-> "Health", name |-> "Cannabis",
      keywords |-> <<<<"value", "buds">>, <<"tokyo", "smoke">>>>],
     [parent |-> "Education", name |-> "Tuition",
      keywords |-> <<<<"uoft">>, <<"university">>, <<"college">>>>],
     [parent |-> "Education", name |-> "Books",
      keywords |-> <<<<"indigo">>, <<"chapters">>, <<"bookstore">>>>],
     [parent |-> "Education", name |-> "Supplies",
      keywords |-> <<<<"staples">>, <<"grand", "&", "toy">>>>],
     [parent |-> "Entertainment", name |-> "Streaming",
      keywords |-> <<<<"netflix">>, <<"spotify">>, <<"disney">>,
                    <<"amazon", "prime">>>>],
     [parent |-> "Entertainment", name |-> "Movies",
      keywords |-> <<<<"cineplex">>, <<"theatre">>>>],
     [parent |-> "Entertainment", name |-> "Gaming",
      keywords |-> <<<<"steam">>, <<"playstation">>, <<"xbox">>>>],
     [parent |-> "Utilities", name |-> "Internet",
      keywords |-> <<<<"rogers">>, <<"bell">>, <<"telus">>>>],
     [parent |-> "Utilities", name |-> "Phone",
      keywords |-> <<<<"rogers">>, <<"bell">>, <<"fido">>, <<"koodo">>>>],
     [parent |-> "Utilities", name |-> "Hydro",
      keywords |-> <<<<"toronto", "hydro">>, <<"enbridge">>>>]
    >>

RECURSIVE initialize_default_categories(_, _, _)
\* Table categories after the calls add_category_with_keywords(subcat_name,
\* keywords, parent_name) for the entries left; each call reloads the snapshot
initialize_default_categories(cats, snap, entries) ==
    IF entries = <<>> THEN cats
    ELSE LET e == Head(entries)
             rows == add_category_with_keywords_rows(cats, snap, e.name, e.keywords,
                                                     Some(e.parent))
         IN  IF Len(rows) < Len(cats) THEN cats    \* never: a call removes no row
             ELSE initialize_default_categories(rows, get_categories(rows),
                                                Tail(entries))

\* A call categorizer.initialize_default_categories()
InitializeDefaultCategories ==
    /\ categories' = initialize_default_categories(categories, snapshot,
                                                   DefaultCategories)
    /\ snapshot' = get_categories(categories')
    /\ last' = [op |-> "initialize_default_categories", rows |-> Len(categories)]
    /\ UNCHANGED <<workers, accounts, transactions, ingested, submitted, current_year,
                   parserVars>>

NextCategorizer == AddCategoryWithKeywords \/ InitializeDefaultCategories

SpecCategorizer == InitLedger /\ [][NextCategorizer]_vars

\* C19: after any sequence of add_category_with_keywords and
\* initialize_default_categories calls every category that has a parent refers
\* to a stored category that has no parent itself: the hierarchy is one level
\* deep and no category is its own ancestor.
C19_DepthAtMostOne ==
    \A i \in 1..Len(categories) :
        categories[i].parent_id # None =>
            /\ categories[i].parent_id[1] # categories[i].id
            /\ \E j \in 1..Len(categories) :
                   /\ categories[j].id = categories[i].parent_id[1]
                   /\ categories[j].parent_id = None

\* The defaults were added to a table that already had a Food with a child
\* Food: the default Dining hangs under the top-level Food.
C19_Witness ==
    /\ last.op = "initialize_default_categories"
    /\ last.rows >= 2
    /\ categories[1].name = "Food" /\ categories[1].parent_id = None
    /\ categories[2].name = "Food" /\ categories[2].parent_id = Some(1)
    /\ \E i \in 1..Len(categories) :
           categories[i].name = "Dining" /\ categories[i].parent_id = Some(1)
    /\ \E i \in 1..Len(categories) :
           categories[i].name = "Hydro" /\ categories[i].parent_id # None


-----------------------------------------------------------------------------
(* Statements with malformed dates *)

ParseBadDatePdf == \E doc \in BadDateStatements : ParsePdfOf(doc)

NextBadDates == ParseBadDatePdf \/ NewYear \/ LedgerAddCategory \/ RecategorizeAll

SpecBadDates == InitLedger /\ [][NextBadDates]_vars


\* The days month abbreviation mon has in year y; none for a word no calendar
\* has
CalendarDays(mon, y) ==
    CASE mon = "Sep" -> 30
      [] mon = "Feb" -> IF (y % 4 = 0 /\ y % 100 # 0) \/ y % 400 = 0 THEN 29 ELSE 28
      [] OTHER -> 0

\* <month> <day> names no day of the calendar of year y
NoCalendarDate(text, y) == DayValue[text[2]] \notin 1..CalendarDays(text[1], y)

\* Line i of page pg is a row the loop of the layout records: it has the row
\* grammar, a header line precedes it on the page with (card layout) no footer
\* in between, and it is none of the lines the loop passes over
RecordedRowAt(type, pg, i) ==
    IF type = "bank_account"
    THEN /\ BankRowMatch(pg[i])
         /\ ~BankHeader(pg[i])
         /\ ~Contains(pg[i], <<"Opening", "balance">>)
         /\ \E j \in 1..(i - 1) : BankHeader(pg[j])
    ELSE /\ CardRowMatch(pg[i])
         /\ ~CardHeader(pg[i]) /\ ~CardFooter(pg[i]) /\ ~CardSkip(pg[i])
         /\ ~Contains(pg[i], <<"Card", "number">>)
         /\ \E k \in 1..Len(pg) :
                \/ Contains(pg[k], <<"Your", "new", "charges", "and", "credits">>)
                \/ Contains(pg[k], <<"Transactions">>)
         /\ \E j \in 1..(i - 1) :
                /\ CardHeader(pg[j])
                /\ \A k \in (j + 1)..(i - 1) : CardHeader(pg[k]) \/ ~CardFooter(pg[k])

\* C20: when the date text of a recorded row is no calendar date of the
\* current year (a month no calendar has, a day its month does not have),
\* parse_pdf still comes back: the parser's records hold one for the row whose
\* date is the date text of the line, unchanged, and after the pass the table
\* holds a row of the statement's account with that text as its date.
C20_BadDateKept ==
    [][last'.op = "parse_pdf" =>
        \A p \in 1..Len(last'.doc) : \A i \in 1..Len(last'.doc[p]) :
            LET l == last'.doc[p][i]
            IN  (/\ RecordedRowAt(detect_statement_type(last'.doc[1]), last'.doc[p], i)
                 /\ NoCalendarDate(SubSeq(l, 1, 2), last'.year))
                => /\ \E k \in 1..Len(last'.found) :
                          last'.found[k].date = SubSeq(l, 1, 2)
                   /\ \E r \in 1..Len(transactions') :
                          /\ transactions'[r].account_id = last'.account_id
                          /\ transactions'[r].date = SubSeq(l, 1, 2)]_vars

\* A bank statement with a 30 February row and a row of month "Xyz" was
\* ingested: both rows are new and stored under the text of their dates.
C20_Witness ==
    /\ last.op = "parse_pdf"
    /\ detect_statement_type(last.doc[1]) = "bank_account"
    /\ last.new_count = 2
    /\ \E r \in 1..Len(transactions) :
           /\ transactions[r].date = <<"Feb", "30">>
           /\ transactions[r].amount = -3767
           /\ transactions[r].balance = Some(89818)
    /\ \E r \in 1..Len(transactions) : transactions[r].date = <<"Xyz", "02">>


-----------------------------------------------------------------------------
(* The Categorizer's snapshot after add_category_with_keywords *)

\* Keyword lists handed to add_category_with_keywords
ReloadKeywordLists == {<<<<"shop">>>>, <<<<"Mart">>>>}

AddCategoryReload ==
    \E n \in NewCategoryNames, kw \in ReloadKeywordLists, pn \in {None, Some("Food")} :
        AddCategoryWithKeywordsOf(n, kw, pn)

\* Calls of the Categorizer, and db.add_category calls made past it
NextReload == AddCategoryReload \/ AddCategory \/ Categorize

SpecReload == InitLedger /\ [][NextReload]_vars

\* The description of the categorize call holds one of the keywords the
\* add_category_with_keywords call before it was given
HoldsGivenKeyword ==
    \E k \in 1..Len(last.keywords) :
        Contains(Lower(last'.description), Lower(last.keywords[k]))

\* No category other than the one the call returned matches the description
NoOtherMatch ==
    \A i \in 1..Len(snapshot) :
        snapshot[i].id # last.ret => ~CaseInsensitiveHit(snapshot[i], last'.description)

\* C21 as stated: after every add_category_with_keywords call the snapshot is
\* the table of categories, and the next categorize call, on a description that
\* holds one of the call's keywords and matches no other category, returns the
\* identity the call returned.
C21_EveryCallSeen ==
    [][/\ last'.op = "add_category_with_keywords" => snapshot' = categories'
       /\ (/\ last.op = "add_category_with_keywords"
           /\ last'.op = "categorize"
           /\ HoldsGivenKeyword
           /\ NoOtherMatch)
          => last'.ret = Some(last.ret)]_vars

\* C21 amended: after every add_category_with_keywords call the snapshot is
\* the table of categories, a parent created on the way included.  When the
\* call inserted the category, the next categorize call, on a description that
\* holds one of its keywords and matches no other category, returns its
\* identity.  When a category of that name under that parent was there, the call
\* returns that category's identity and leaves the table as it was, the stored
\* keywords included.
C21_InsertedCategorySeen ==
    [][/\ last'.op = "add_category_with_keywords" =>
            /\ snapshot' = categories'
            /\ last'.ret <= last'.rows => categories' = categories
       /\ (/\ last.op = "add_category_with_keywords"
           /\ last.ret > last.rows
           /\ last'.op = "categorize"
           /\ HoldsGivenKeyword
           /\ NoOtherMatch)
          => last'.ret = Some(last.ret)]_vars

\* "Dining" was added under "Food", which the call created on the way past a
\* snapshot that was behind the table; the categorize call that followed, on
\* "WALMART #13", returned the new identity.
C21_Witness ==
    /\ last.op = "categorize"
    /\ last.description = <<"WALMART", "#13">>
    /\ Len(snapshot) = 3
    /\ snapshot = categories
    /\ snapshot[2].name = "Food" /\ snapshot[2].parent_id = None
    /\ snapshot[3].name = "Dining" /\ snapshot[3].parent_id = Some(2)
    /\ snapshot[3].keywords = Some(<<<<"Mart">>>>)
    /\ last.ret = Some(3)


-----------------------------------------------------------------------------
(* main.recategorize_all over rows stored with and without a category *)

\* Database.get_uncategorized_count
get_uncategorized_count(txs) == Cardinality({i \in 1..Len(txs) : txs[i].category_id = None})

\* Bound of the recategorize runs: rows in table categories.
MaxRecategorizeCategories == 2

\* Descriptions of the rows stored: two that hold keywords, one that holds none
RecategorizeDescriptions == {<<"SHOP", "MART">>, <<"WALMART", "#13">>, <<"uber">>}

\* category_id values handed to add_transaction
RecategorizeCategoryIds == {None, Some(2)}

\* A call db.add_transaction(1, date, description, amount, None, category_id)
StoreTransaction ==
    \E x \in RecategorizeDescriptions, c \in RecategorizeCategoryIds :
        AddTransactionOf(1, <<"2027", "-", "09", "-", "02">>, x, -3767, <<None, c>>)

\* A call categorizer.add_category_with_keywords(name, keywords)
AddTopCategory ==
    /\ \E n \in NewCategoryNames, kw \in ReloadKeywordLists :
           AddCategoryWithKeywordsOf(n, kw, None)
    /\ Len(categories') <= MaxRecategorizeCategories

NextRecategorize == StoreTransaction \/ AddTopCategory \/ RecategorizeAll

SpecRecategorize == InitLedger /\ [][NextRecategorize]_vars

\* Row i of the table after the pass is row i before it, but for the category
FrameButCategory(i) ==
    [transactions'[i] EXCEPT !.category_id = None] =
        [transactions[i] EXCEPT !.category_id = None]

\* The description matches no category of the snapshot
MatchesNone(description) ==
    \A k \in 1..Len(snapshot) : ~CaseInsensitiveHit(snapshot[k], description)

-----------------------------------------------------------------------------
(* Accounts named by the user, and the add_account calls that follow *)

\* The statements whose layout is recognised: the account number is read
\* from the page
AccountStatements == {doc \in Statements : detect_statement_type(doc[1]) # "unknown"}

ParseAccountPdf == \E doc \in AccountStatements : ParsePdfOf(doc)

\* parse_pdf passes, direct add_account calls and renames
NextOperatorName == ParseAccountPdf \/ AddAccount \/ UpdateAccountName

SpecOperatorName == InitLedger /\ [][NextOperatorName]_vars

\* Account row i carries a name update_account_name gave it
OperatorNamed(i) == accounts[i].account_name \in {Some(nm) : nm \in CustomNames}

\* The step is an add_account call for the number of account row i, made
\* directly or by parse_pdf
AddAccountCallFor(i) ==
    \/ last'.op = "add_account" /\ last'.account_number = accounts[i].account_number
    \/ last'.op = "parse_pdf" /\ last'.account_id = accounts[i].id

\* C23: once update_account_name has set the name of an account, a later
\* add_account call for its number, made directly with any name and type or by
\* parse_pdf with a null name, leaves the account's name and type (and its
\* number and identity) as they are and adds no account row.
C23_OperatorNameSurvives ==
    [][\A i \in 1..Len(accounts) :
           (OperatorNamed(i) /\ AddAccountCallFor(i))
           => /\ Len(accounts') = Len(accounts)
              /\ accounts'[i].account_name = accounts[i].account_name
              /\ accounts'[i].account_type = accounts[i].account_type
              /\ accounts'[i].account_number = accounts[i].account_number
              /\ accounts'[i].id = accounts[i].id]_vars

\* A statement of the account renamed "Home" was ingested once more and stored
\* a row: the account is still "Home".
C23_Witness ==
    /\ last.op = "parse_pdf"
    /\ last.new_count >= 1
    /\ \E i \in 1..Len(accounts) :
           /\ accounts[i].id = last.account_id
           /\ accounts[i].account_name = Some("Home")
           /\ accounts[i].account_type \in AccountTypes

=============================================================================
